---- MODULE Spec2Model ----
(***************************************************************************)
(* A model of riir: the tool registry (function.rs), the project            *)
(* directories (project.rs), and the conversation and convergence loops    *)
(* (main.rs).                                                              *)
(*                                                                         *)
(* Representation.  A Rust String is a sequence of pieces: a path or a     *)
(* file's contents is a sequence of one-character strings, so that         *)
(* starts_with, contains and the split into components are computed; a     *)
(* string the program only compares or copies whole (a field name, an      *)
(* error message) is a single piece.  A JSON text is a sequence of         *)
(* lexemes: insignificant whitespace is all the representation forgets.    *)
(* Option<T> is a sequence of length at most one.                          *)
(***************************************************************************)
EXTENDS Integers, Sequences, FiniteSets, TLC

(* ------------------------------ bounds -------------------------------- *)

\* Model replies that carry a function call, per run of main.
MaxCalls == 2

\* Calls of Chat::send_message, per run of main.
MaxTurns == 3

(* ------------------------------ Option -------------------------------- *)

None == <<>>

Some(x) == <<x>>

IsSome(o) == Len(o) = 1

(* ------------------------------ strings ------------------------------- *)

StartsWith(s, c) == Len(s) >= 1 /\ s[1] = c

Contains(s, pat) ==
    \E i \in 1..Len(s) :
        /\ i + Len(pat) - 1 <= Len(s)
        /\ SubSeq(s, i, i + Len(pat) - 1) = pat

(* ---------------------------- JSON lexemes ---------------------------- *)

Tok(k, v) == [k |-> k, v |-> v]

LBRACE == Tok("{", <<>>)

RBRACE == Tok("}", <<>>)

LBRACKET == Tok("[", <<>>)

RBRACKET == Tok("]", <<>>)

COLON == Tok(":", <<>>)

COMMA == Tok(",", <<>>)

NULL == Tok("null", <<>>)

\* A string literal; serde_json escapes '"' and '\' when it writes one and
\* unescapes them when it reads one, so the lexeme carries the string itself.
STR(s) == Tok("str", s)

\* A lexeme that is no JSON token (the model's malformed text).
JUNK == Tok("junk", <<>>)

\* Prose (a prompt); never JSON.
PROSE(words) == Tok("prose", <<words>>)

IsScalar(t) == t.k \in {"str", "null"}

(* ------------------- serde_json::from_str, by shape ------------------- *)
(* Texts are flat: a scalar, an array of scalars, or an object whose       *)
(* member values are scalars.  Anything else is a syntax error here.       *)

IsObjectText(t) ==
    \/ t = <<LBRACE, RBRACE>>
    \/ /\ Len(t) >= 5
       /\ (Len(t) - 1) % 4 = 0
       /\ t[1] = LBRACE
       /\ \A j \in 0..((Len(t) - 1) \div 4 - 1) :
            /\ t[2 + 4 * j].k = "str"
            /\ t[3 + 4 * j] = COLON
            /\ IsScalar(t[4 + 4 * j])
            /\ t[5 + 4 * j] = (IF 5 + 4 * j = Len(t) THEN RBRACE ELSE COMMA)

ObjectMembers(t) ==
    [j \in 1..((Len(t) - 1) \div 4) |->
        [key |-> t[4 * j - 2].v, value |-> t[4 * j]]]

IsArrayText(t) ==
    \/ t = <<LBRACKET, RBRACKET>>
    \/ /\ Len(t) >= 3
       /\ (Len(t) - 1) % 2 = 0
       /\ t[1] = LBRACKET
       /\ \A j \in 0..((Len(t) - 1) \div 2 - 1) :
            /\ IsScalar(t[2 + 2 * j])
            /\ t[3 + 2 * j] = (IF 3 + 2 * j = Len(t) THEN RBRACKET ELSE COMMA)

ArrayItems(t) == [j \in 1..((Len(t) - 1) \div 2) |-> t[2 * j]]

\* The JSON value a text denotes: kind "error" for a text that is not JSON
\* (empty input, junk, trailing lexemes).
ParseJson(t) ==
    IF Len(t) = 1 /\ IsScalar(t[1])
    THEN [kind |-> t[1].k, s |-> t[1].v, members |-> <<>>, items |-> <<>>]
    ELSE IF IsObjectText(t)
    THEN [kind |-> "object", s |-> <<>>, members |-> ObjectMembers(t), items |-> <<>>]
    ELSE IF IsArrayText(t)
    THEN [kind |-> "array", s |-> <<>>, members |-> <<>>, items |-> ArrayItems(t)]
    ELSE [kind |-> "error", s |-> <<>>, members |-> <<>>, items |-> <<>>]

DecodeErr == [ok |-> FALSE, value |-> <<>>]

DecodeOk(v) == [ok |-> TRUE, value |-> v]

\* Deserialize for (): only the text null.
DeserializeUnit(t) ==
    IF ParseJson(t).kind = "null" THEN DecodeOk(<<>>) ELSE DecodeErr

\* #[derive(Deserialize)] for a struct whose fields (in declaration order) are
\* all String: from a map (unknown keys ignored, a duplicate or missing field
\* or a non-string value is an error) or from a sequence of exactly the fields.
DeserializeStruct(fields, t) ==
    LET j == ParseJson(t)
        n == Len(fields)
        hits(f) == {i \in 1..Len(j.members) : j.members[i].key = f}
        the(f) == CHOOSE i \in hits(f) : TRUE
    IN  IF j.kind = "object"
        THEN IF \A k \in 1..n :
                    /\ Cardinality(hits(fields[k])) = 1
                    /\ j.members[the(fields[k])].value.k = "str"
             THEN DecodeOk([k \in 1..n |-> j.members[the(fields[k])].value.v])
             ELSE DecodeErr
        ELSE IF j.kind = "array"
        THEN IF Len(j.items) = n /\ \A k \in 1..n : j.items[k].k = "str"
             THEN DecodeOk([k \in 1..n |-> j.items[k].v])
             ELSE DecodeErr
        ELSE DecodeErr

ReadFileArgsFields == << <<"path">> >>

WriteFileArgsFields == << <<"path">>, <<"contents">> >>

\* serde_json::from_str::<A>(text) for the argument types the tools use.
FromStr(argType, t) ==
    CASE argType = "unit" -> DeserializeUnit(t)
      [] argType = "ReadFileArgs" -> DeserializeStruct(ReadFileArgsFields, t)
      [] argType = "WriteFileArgs" -> DeserializeStruct(WriteFileArgsFields, t)

(* -------------------- serde_json::to_string, by type ------------------ *)

JsonOption(o) == IF IsSome(o) THEN STR(o[1]) ELSE NULL

RECURSIVE JsonStrings(_)
JsonStrings(ss) ==
    IF ss = <<>> THEN <<>>
    ELSE IF Len(ss) = 1 THEN <<STR(ss[1])>>
    ELSE <<STR(ss[1]), COMMA>> \o JsonStrings(Tail(ss))

Key(s) == <<STR(s), COLON>>

ErrorKey == <<"error">>

ContentsKey == <<"contents">>

FilesKey == <<"files">>

MessageKey == <<"message">>

\* to_string as if the Option fields were skipped when None.
to_string_SkipNone(r) ==
    CASE r.type = "ProjectDirectoryContents" ->
            <<LBRACE>> \o Key(FilesKey) \o <<LBRACKET>> \o JsonStrings(r.files)
                \o <<RBRACKET, RBRACE>>
      [] r.type = "ReadFileResult" ->
            <<LBRACE>>
                \o (IF IsSome(r.error) THEN Key(ErrorKey) \o <<STR(r.error[1])>>
                    ELSE Key(ContentsKey) \o <<JsonOption(r.contents)>>)
                \o <<RBRACE>>
      [] r.type = "WriteFileResult" ->
            <<LBRACE>>
                \o (IF IsSome(r.error) THEN Key(ErrorKey) \o <<STR(r.error[1])>>
                    ELSE <<>>)
                \o <<RBRACE>>
      [] r.type = "FuncResult" ->
            <<LBRACE>> \o Key(MessageKey) \o <<STR(r.message), RBRACE>>

\* #[derive(Serialize)]: the fields in declaration order.
to_string(r) ==
    CASE r.type = "ProjectDirectoryContents" ->
            <<LBRACE>> \o Key(FilesKey) \o <<LBRACKET>> \o JsonStrings(r.files)
                \o <<RBRACKET, RBRACE>>
      [] r.type = "ReadFileResult" ->
            <<LBRACE>> \o Key(ErrorKey) \o <<JsonOption(r.error), COMMA>>
                \o Key(ContentsKey) \o <<JsonOption(r.contents), RBRACE>>
      [] r.type = "WriteFileResult" ->
            <<LBRACE>> \o Key(ErrorKey) \o <<JsonOption(r.error), RBRACE>>
      [] r.type = "FuncResult" ->
            <<LBRACE>> \o Key(MessageKey) \o <<STR(r.message), RBRACE>>

(* ------------------------- std::path, std::fs ------------------------- *)
(* A directory tree is a function from the nodes that exist (a node is the *)
(* sequence of its path components below the project root, <<>> the root)  *)
(* to what is there.  There are no symbolic links and no permission        *)
(* failures: an operation fails because of the shape of the tree.          *)

RECURSIVE SplitAcc(_, _, _)
SplitAcc(s, cur, acc) ==
    IF s = <<>>
    THEN (IF cur = <<>> THEN acc ELSE Append(acc, cur))
    ELSE IF Head(s) = "/"
    THEN SplitAcc(Tail(s), <<>>, IF cur = <<>> THEN acc ELSE Append(acc, cur))
    ELSE SplitAcc(Tail(s), Append(cur, Head(s)), acc)

NotCurDir(c) == c # <<".">>

\* Path::components, for a path joined below a root: separators split it,
\* empty and "." components are dropped.
Components(p) == SelectSeq(SplitAcc(p, <<>>, <<>>), NotCurDir)

\* A path the system resolves only to a directory: it ends in "/" or "/.".
DirRequired(p) ==
    /\ p # <<>>
    /\ \/ p[Len(p)] = "/"
       \/ SplitAcc(p, <<>>, <<>>)[Len(SplitAcc(p, <<>>, <<>>))] = <<".">>

Front(s) == SubSeq(s, 1, Len(s) - 1)

RECURSIVE PathString(_)
PathString(node) ==
    IF node = <<>> THEN <<>>
    ELSE IF Len(node) = 1 THEN node[1]
    ELSE node[1] \o <<"/">> \o PathString(Tail(node))

DirEntry == [kind |-> "dir", contents |-> <<>>]

FileEntry(c) == [kind |-> "file", contents |-> c]

IsDir(tree, n) == n \in DOMAIN tree /\ tree[n].kind = "dir"

IsFile(tree, n) == n \in DOMAIN tree /\ tree[n].kind = "file"

Prefixes(n) == {SubSeq(n, 1, k) : k \in 0..Len(n)}

\* std::fs::create_dir_all: every missing ancestor is created; it fails, and
\* creates nothing, when an ancestor that exists is not a directory.
create_dir_all(tree, n) ==
    IF \A q \in Prefixes(n) : q \in DOMAIN tree => tree[q].kind = "dir"
    THEN [ok |-> TRUE,
          tree |-> [q \in DOMAIN tree \cup Prefixes(n) |->
                        IF q \in DOMAIN tree THEN tree[q] ELSE DirEntry]]
    ELSE [ok |-> FALSE, tree |-> tree]

\* std::fs::write: creates or truncates the file; it fails when the path names
\* a directory (the root included) or its parent is not a directory.
fs_write(tree, path, contents) ==
    LET n == Components(path)
    IN  IF /\ n # <<>>
           /\ ~DirRequired(path)
           /\ IsDir(tree, Front(n))
           /\ ~IsDir(tree, n)
        THEN [ok |-> TRUE,
              tree |-> [q \in DOMAIN tree \cup {n} |->
                            IF q = n THEN FileEntry(contents) ELSE tree[q]]]
        ELSE [ok |-> FALSE, tree |-> tree]

\* std::fs::read_to_string.
fs_read_to_string(tree, path) ==
    LET n == Components(path)
    IN  IF n # <<>> /\ ~DirRequired(path) /\ IsFile(tree, n)
        THEN Some(tree[n].contents)
        ELSE None

(* ------------------------------ Project -------------------------------- *)
(* A Project value is [path, tree, dirty]: the root path it was made with, *)
(* the directory tree below it, and the AtomicBool.                        *)

InvalidPath == <<"Invalid path.">>

CannotReadFile == <<"Cannot read file.">>

CannotWriteFile == <<"Cannot write file.">>

ReadFileResult(error, contents) ==
    [type |-> "ReadFileResult", error |-> error, contents |-> contents]

WriteFileResult(error) == [type |-> "WriteFileResult", error |-> error]
\* Rejected as if only absolute and dotted paths were refused.
Rejected_NoTraversal(path) ==
    \/ StartsWith(path, "/")
    \/ StartsWith(path, ".")

\* The test both read_file and write_file start with.
Rejected(path) ==
    \/ StartsWith(path, "/")
    \/ StartsWith(path, ".")
    \/ Contains(path, <<".", ".">>)

DotGit == <<".", "g", "i", "t">>

Target == <<"t", "a", "r", "g", "e", "t">>

DotGitignore == <<".", "g", "i", "t", "i", "g", "n", "o", "r", "e">>

DotEnv == <<".", "e", "n", "v">>

CargoLock == <<"C", "a", "r", "g", "o", ".", "l", "o", "c", "k">>

License == <<"L", "I", "C", "E", "N", "S", "E">>

LicenseTxt == <<"L", "I", "C", "E", "N", "S", "E", ".", "t", "x", "t">>

is_not_important_path(tree, rel) ==
    IF IsDir(tree, rel)
    THEN rel \in {<<DotGit>>, <<Target>>}
    ELSE IF IsFile(tree, rel)
    THEN rel \in {<<DotGitignore>>, <<DotEnv>>, <<CargoLock>>, <<License>>,
                  <<LicenseTxt>>}
    ELSE TRUE

Children(tree, n) ==
    {m \in DOMAIN tree : Len(m) = Len(n) + 1 /\ SubSeq(m, 1, Len(n)) = n}

\* The orders std::fs::read_dir may yield a directory's entries in.
Orders(S) ==
    {o \in [1..Cardinality(S) -> S] :
        \A i, j \in 1..Cardinality(S) : o[i] = o[j] => i = j}

RECURSIVE list_project_files(_, _)
RECURSIVE ListInOrder(_, _)
ListInOrder(tree, o) ==
    IF o = <<>> THEN {<<>>}
    ELSE IF is_not_important_path(tree, o[1])
    THEN ListInOrder(tree, Tail(o))
    ELSE {h \o t :
            h \in (IF IsDir(tree, o[1])
                   THEN list_project_files(tree, o[1])
                   ELSE {<<o[1]>>}),
            t \in ListInOrder(tree, Tail(o))}

\* The file lists (as nodes) the recursive walk may produce below node n.
list_project_files(tree, n) ==
    UNION {ListInOrder(tree, o) : o \in Orders(Children(tree, n))}

\* Project::list_contents: the results it may return.
list_contents(p) ==
    {[type |-> "ProjectDirectoryContents",
      files |-> [i \in 1..Len(l) |-> PathString(l[i])]] :
        l \in list_project_files(p.tree, <<>>)}

\* Project::read_file.
read_file(p, path) ==
    IF Rejected(path)
    THEN ReadFileResult(Some(InvalidPath), None)
    ELSE IF IsSome(fs_read_to_string(p.tree, path))
    THEN ReadFileResult(None, fs_read_to_string(p.tree, path))
    ELSE ReadFileResult(Some(CannotReadFile), None)

\* What a call leaves: the value returned (unless it panicked), the tree, the flag.
Returned(ret, tree, dirty) ==
    [panic |-> FALSE, ret |-> ret, tree |-> tree, dirty |-> dirty]

Panicked(tree, dirty) ==
    [panic |-> TRUE, ret |-> WriteFileResult(None), tree |-> tree, dirty |-> dirty]

\* write_file as if the flag were stored after the write, with its result.
write_file_StoreResult(p, path, contents) ==
    LET n == Components(path)
        below == n # <<>>
        parent == Front(n)
        create == below /\ ~IsDir(p.tree, parent) /\ parent \notin DOMAIN p.tree
        made == IF create THEN create_dir_all(p.tree, parent)
                ELSE [ok |-> TRUE, tree |-> p.tree]
        written == fs_write(made.tree, path, contents)
    IN  IF Rejected(path)
        THEN Returned(WriteFileResult(Some(InvalidPath)), p.tree, p.dirty)
        ELSE IF ~below /\ Components(p.path) = <<>>
        THEN Returned(WriteFileResult(Some(InvalidPath)), p.tree, p.dirty)
        ELSE IF ~made.ok
        THEN Panicked(p.tree, p.dirty)
        ELSE IF written.ok
        THEN Returned(WriteFileResult(None), written.tree, TRUE)
        ELSE Returned(WriteFileResult(Some(CannotWriteFile)), written.tree, FALSE)

\* Project::write_file.  The joined path has no parent only when the project
\* root is the filesystem root and the relative path has no component.
write_file(p, path, contents) ==
    LET n == Components(path)
        below == n # <<>>
        parent == Front(n)
        create == below /\ ~IsDir(p.tree, parent) /\ parent \notin DOMAIN p.tree
        made == IF create THEN create_dir_all(p.tree, parent)
                ELSE [ok |-> TRUE, tree |-> p.tree]
        written == fs_write(made.tree, path, contents)
    IN  IF Rejected(path)
        THEN Returned(WriteFileResult(Some(InvalidPath)), p.tree, p.dirty)
        ELSE IF ~below /\ Components(p.path) = <<>>
        THEN Returned(WriteFileResult(Some(InvalidPath)), p.tree, p.dirty)
        ELSE IF ~made.ok
        THEN Panicked(p.tree, p.dirty)
        ELSE IF written.ok
        THEN Returned(WriteFileResult(None), written.tree, TRUE)
        ELSE Returned(WriteFileResult(Some(CannotWriteFile)), written.tree, TRUE)

\* Project::is_dirty.
is_dirty(p) == p.dirty

\* Project::clear_dirty.
clear_dirty(p) == [p EXCEPT !.dirty = FALSE]

\* Project::new.
NewProject(path, tree) == [path |-> path, tree |-> tree, dirty |-> FALSE]

(* ------------------------ CallableFunctionList ------------------------- *)
(* A host closure is described by what it captures: the argument type A,   *)
(* the Project method it calls (or the unit test's constant function) and  *)
(* the project it holds.                                                   *)

Closure(argType, host, proj) == [argType |-> argType, host |-> host, proj |-> proj]

FuncResult(message) == [type |-> "FuncResult", message |-> message]

\* The projects after a write_file on one of them.  Files are found by path:
\* a project made with the same root path holds the same directory, while its
\* flag is its own.
Written(projects, proj, w) ==
    [id \in DOMAIN projects |->
        IF id = proj
        THEN [projects[id] EXCEPT !.tree = w.tree, !.dirty = w.dirty]
        ELSE IF projects[id].path = projects[proj].path
        THEN [projects[id] EXCEPT !.tree = w.tree]
        ELSE projects[id]]

\* function(args): the host function applied to the decoded argument.  Each
\* outcome is [panic, ret, projects].
Apply(c, value, projects) ==
    CASE c.host = "list_contents" ->
            {[panic |-> FALSE, ret |-> r, projects |-> projects] :
                r \in list_contents(projects[c.proj])}
      [] c.host = "read_file" ->
            {[panic |-> FALSE, ret |-> read_file(projects[c.proj], value[1]),
              projects |-> projects]}
      [] c.host = "write_file" ->
            LET w == write_file(projects[c.proj], value[1], value[2])
            IN  {[panic |-> w.panic, ret |-> w.ret,
                  projects |-> Written(projects, c.proj, w)]}
      [] c.host = "hello" ->
            {[panic |-> FALSE, ret |-> FuncResult(<<"Hello">>),
              projects |-> projects]}

\* What a call of a closure leaves: err is "" for Ok(output); invoked lists
\* the host functions that ran, each with the argument it received and the
\* value it returned.
Outcome(panic, err, output, invoked, projects) ==
    [panic |-> panic, err |-> err, output |-> output, invoked |-> invoked,
     projects |-> projects]

\* ArgsStr as if the unit type were decoded from the payload like any other.
ArgsStr_Payload(c, args_str) == args_str

\* The argument text the closure decodes: "null" for A = ().
ArgsStr(c, args_str) == IF c.argType = "unit" THEN <<NULL>> ELSE args_str

\* Caller as if a payload that does not decode were replaced by empty strings.
Caller_Lenient(c, args_str, projects) ==
    LET args == FromStr(c.argType, ArgsStr(c, args_str))
        value == IF args.ok THEN args.value ELSE <<<<>>, <<>>>>
    IN  {Outcome(a.panic, "", IF a.panic THEN <<>> ELSE to_string(a.ret),
                 <<[host |-> c.host, proj |-> c.proj, value |-> value,
                    ret |-> a.ret]>>,
                 a.projects) :
            a \in Apply(c, value, projects)}

\* The closure add_function builds: decode, invoke, encode.
Caller(c, args_str, projects) ==
    LET args == FromStr(c.argType, ArgsStr(c, args_str))
    IN  IF ~args.ok
        THEN {Outcome(FALSE, "Deserialize", <<>>, <<>>, projects)}
        ELSE {Outcome(a.panic, "", IF a.panic THEN <<>> ELSE to_string(a.ret),
                      <<[host |-> c.host, proj |-> c.proj, value |-> args.value,
                         ret |-> a.ret]>>,
                      a.projects) :
                a \in Apply(c, args.value, projects)}

NullSchema == [type |-> "null", properties |-> <<>>, required |-> <<>>]

\* schema_for!(A) with the meta schema and the title removed.
ArgumentSchema(argType) ==
    CASE argType = "unit" -> NullSchema
      [] argType = "ReadFileArgs" ->
            [type |-> "object", properties |-> ReadFileArgsFields,
             required |-> ReadFileArgsFields]
      [] argType = "WriteFileArgs" ->
            [type |-> "object", properties |-> WriteFileArgsFields,
             required |-> WriteFileArgsFields]

NameTaken(defs, name) == \E i \in 1..Len(defs) : defs[i].name = name

\* add_function as if the assertion were missing.
add_function_Unchecked(list, name, description, c) ==
    [panic |-> FALSE,
     list |-> [functions |->
                   Append(list.functions, [name |-> name, func |-> c]),
               function_definitions |->
                   Append(list.function_definitions,
                          [name |-> name,
                           description |-> Some(description),
                           parameters |-> Some(ArgumentSchema(c.argType))])]]
\* add_function as if the definition were put in front of the list.
add_function_DefinitionFirst(list, name, description, c) ==
    IF NameTaken(list.function_definitions, name)
    THEN [panic |-> TRUE, list |-> list]
    ELSE [panic |-> FALSE,
          list |-> [functions |->
                        Append(list.functions, [name |-> name, func |-> c]),
                    function_definitions |->
                        <<[name |-> name,
                           description |-> Some(description),
                           parameters |-> Some(ArgumentSchema(c.argType))]>>
                        \o list.function_definitions]]

\* CallableFunctionList::add_function on the list [functions,
\* function_definitions]: the assertion fails (panic) when the name is taken.
add_function(list, name, description, c) ==
    IF NameTaken(list.function_definitions, name)
    THEN [panic |-> TRUE, list |-> list]
    ELSE [panic |-> FALSE,
          list |-> [functions |->
                        Append(list.functions, [name |-> name, func |-> c]),
                    function_definitions |->
                        Append(list.function_definitions,
                               [name |-> name,
                                description |-> Some(description),
                                parameters |-> Some(ArgumentSchema(c.argType))])]]

\* self.functions.iter().find(|f| f.name == call.name): the first match.
Find(fs, name) ==
    LET hits == {i \in 1..Len(fs) : fs[i].name = name}
    IN  IF hits = {} THEN None
        ELSE Some(fs[CHOOSE i \in hits : \A j \in hits : i <= j])

Message(role, content, name, function_call) ==
    [role |-> role, content |-> content, name |-> name,
     function_call |-> function_call]

FunctionCall(name, arguments) == [name |-> name, arguments |-> arguments]

\* FunctionMessage as if the name were left to Default::default().
FunctionMessage_Unnamed(call, output) ==
    Message("Function", Some(output), None, None)

\* The message dispatch wraps an output in.
FunctionMessage(call, output) ==
    Message("Function", Some(output), Some(call.name), None)

\* What dispatch leaves: message is Some for Ok(message).
Dispatched(panic, err, message, invoked, projects) ==
    [panic |-> panic, err |-> err, message |-> message, invoked |-> invoked,
     projects |-> projects]

\* CallableFunctionList::dispatch: the outcomes of a call.
dispatch(fs, call, projects) ==
    LET function == Find(fs, call.name)
    IN  IF ~IsSome(function)
        THEN {Dispatched(FALSE, "FunctionNotFound", None, <<>>, projects)}
        ELSE {Dispatched(o.panic, o.err,
                         IF o.panic \/ o.err # "" THEN None
                         ELSE Some(FunctionMessage(call, o.output)),
                         o.invoked, o.projects) :
                o \in Caller(function[1].func, call.arguments, projects)}

(* ------------------------------- inputs -------------------------------- *)

PathA == <<"a">>

PathDA == <<"d", "/", "a">>

PathADA == <<"a", "/", "d", "/", "a">>

PathEmpty == <<>>

PathAbsolute == <<"/", "a">>

PathDotted == <<".", "a">>

PathUp == <<"d", "/", ".", ".", "/", "a">>

ContentsX == <<"x">>

ReadArgsText(path) == <<LBRACE, STR(<<"path">>), COLON, STR(path), RBRACE>>

WriteArgsText(path, contents) ==
    <<LBRACE, STR(<<"path">>), COLON, STR(path), COMMA,
      STR(<<"contents">>), COLON, STR(contents), RBRACE>>

EmptyObjectText == <<LBRACE, RBRACE>>

EmptyText == <<>>

JunkText == <<LBRACE, JUNK>>

NullPathText == <<LBRACE, STR(<<"path">>), COLON, NULL, RBRACE>>

ArrayArgsText == <<LBRACKET, STR(PathA), RBRACKET>>

\* The argument texts the model under test may send in the main program.
ModelTexts ==
    {EmptyObjectText, WriteArgsText(PathA, ContentsX),
     WriteArgsText(PathEmpty, ContentsX)}

\* The argument texts the registry harness dispatches with.
LibTexts ==
    {EmptyObjectText, EmptyText, JunkText, NullPathText, ArrayArgsText,
     ReadArgsText(PathA)}
    \cup {WriteArgsText(p, ContentsX) :
            p \in {PathA, PathDA, PathADA, PathEmpty, PathAbsolute, PathDotted,
                   PathUp}}

\* The tools main registers, in order.
MainTools ==
    <<[name |-> "src_list_files",
       description |-> <<"List all files in the source project directory.">>,
       func |-> Closure("unit", "list_contents", "src")],
      [name |-> "src_read_file",
       description |-> <<"Reads the contents of a file in the source project directory.">>,
       func |-> Closure("ReadFileArgs", "read_file", "src")],
      [name |-> "dst_list_files",
       description |-> <<"List all files in the destination project directory.">>,
       func |-> Closure("unit", "list_contents", "dst")],
      [name |-> "dst_read_file",
       description |-> <<"Reads the contents of a file in the destination project directory.">>,
       func |-> Closure("ReadFileArgs", "read_file", "dst")],
      [name |-> "dst_write_file",
       description |-> <<"Saves the contents to a file in the destination project directory.">>,
       func |-> Closure("WriteFileArgs", "write_file", "dst")]>>

ToolNames == {MainTools[i].name : i \in 1..Len(MainTools)}

\* The names the model under test may ask for: the tools and one it made up.
ModelNames == ToolNames \cup {"no_such_tool"}

\* The names and closures the registry harness registers.
LibNames == {"unit_test", "dst_write_file"}

LibClosures ==
    {Closure("unit", "hello", "dst"), Closure("unit", "list_contents", "dst"),
     Closure("ReadFileArgs", "read_file", "dst"),
     Closure("WriteFileArgs", "write_file", "dst")}

\* The source project holds one file and an ignored one; the destination is empty.
SourceTree ==
    [n \in {<<>>, <<PathA>>, <<DotEnv>>} |->
        IF n = <<>> THEN DirEntry ELSE FileEntry(<<"s">>)]

EmptyTree == [n \in {<<>>} |-> DirEntry]

SourceRoot == <<"s", "r", "c">>

\* The destination argument: a directory, or the filesystem root itself.
DestinationRoot == <<"d", "s", "t">>

DestinationRoots == {DestinationRoot, <<"/">>}

SystemPrompt == <<PROSE("You are a large language model that is capable of converting project source code to Rust source code. You have access to two project directories: the source project directory if read-only and contains the source files of the original project. The destination project directory is initially empty and should be populated with project files in Rust language. When you propose an action or a change to the source code, execute this action or change right away.")>>

AnalysisInstruction == <<PROSE("Please analyze the project in the source directory, but don't make any changes at this point.")>>

CreateInstruction == <<PROSE("Now create Rust project in the destination project directory so that it matches the implementation in the source project directory.")>>

\* The backquotes around cargo check are written as apostrophes: a string of
\* this language cannot hold a backquote.
FixPrefix == <<PROSE("Apparently there are some problems with the code. Please correct them. Here is the 'cargo check' output:\n")>>

\* What ./run_cargo_check may print: nothing, or diagnostics.
Diagnostics == <<PROSE("error[E0425]: cannot find value")>>

Warnings == <<PROSE("warning: unused variable")>>

CheckOutputs == {<<>>, Diagnostics, Warnings}

\* Project::run_cargo_check, given what the command printed.
run_cargo_check(stdout) == IF stdout = <<>> THEN None ELSE Some(stdout)

(* -------------------------------- state -------------------------------- *)

VARIABLES
    pc,                   \* where main (or the harness) is
    stage,                \* which send_message of main is running
    messages,             \* Chat::messages
    functions,            \* CallableFunctionList::functions
    function_definitions, \* CallableFunctionList::function_definitions
    project,              \* the two Project values, "src" and "dst"
    message,              \* main's local `message`
    request,              \* the last request built for the model endpoint
    last                  \* the last registry call and what it returned

vars ==
    <<pc, stage, messages, functions, function_definitions, project, message,
      request, last>>

\* A registry or project call as its caller saw it: add_function(name, func),
\* dispatch(name, arguments), clear_dirty() or run_cargo_check(), whether it
\* panicked, for a dispatch the error or the message returned and the host
\* calls made, and for run_cargo_check the diagnostics returned.
Observed(op, name, func, arguments, panic, err, result, invoked) ==
    [op |-> op, name |-> name, func |-> func, arguments |-> arguments,
     panic |-> panic, err |-> err, message |-> result, invoked |-> invoked,
     errors |-> None]

Nothing == Observed("none", "", None, <<>>, FALSE, "", None, <<>>)

Added(name, func, panic) ==
    Observed("add_function", name, Some(func), <<>>, panic, "", None, <<>>)

Called(call, o) ==
    Observed("dispatch", call.name, None, call.arguments, o.panic, o.err,
             o.message, o.invoked)

Cleared == Observed("clear_dirty", "", None, <<>>, FALSE, "", None, <<>>)

\* run_cargo_check() and the Option<String> it returned.
Checked(errors) ==
    [Observed("run_cargo_check", "", None, <<>>, FALSE, "", None, <<>>)
        EXCEPT !.errors = errors]

List == [functions |-> functions, function_definitions |-> function_definitions]

InitWith(start, roots) ==
    /\ pc = start
    /\ stage = "analysis"
    /\ messages = <<>>
    /\ functions = <<>>
    /\ function_definitions = <<>>
    /\ \E root \in roots :
         project = [id \in {"src", "dst"} |->
                        IF id = "src" THEN NewProject(SourceRoot, SourceTree)
                        ELSE NewProject(root, IF root = SourceRoot
                                              THEN SourceTree ELSE EmptyTree)]
    /\ message = <<>>
    /\ request = None
    /\ last = Nothing

Init == InitWith("startup", {DestinationRoot})

(* ------------------------------- main.rs ------------------------------- *)

Turns == Cardinality({i \in 1..Len(messages) : messages[i].role = "User"})

Calls ==
    Cardinality({i \in 1..Len(messages) :
        messages[i].role = "Assistant" /\ IsSome(messages[i].function_call)})

\* main, lines 126-159: the next add_function call.
MainAddFunction ==
    /\ pc = "startup"
    /\ Len(functions) < Len(MainTools)
    /\ LET t == MainTools[Len(functions) + 1]
           r == add_function(List, t.name, t.description[1], t.func)
       IN  /\ functions' = r.list.functions
           /\ function_definitions' = r.list.function_definitions
           /\ pc' = IF r.panic THEN "panic" ELSE "startup"
           /\ last' = Added(t.name, t.func, r.panic)
    /\ UNCHANGED <<stage, messages, project, message, request>>

\* main, lines 161-173: the transcript starts as the system message alone.
MainSystemMessage ==
    /\ pc = "startup"
    /\ Len(functions) = Len(MainTools)
    /\ messages' = <<Message("System", Some(SystemPrompt), None, None)>>
    /\ pc' = "send"
    /\ UNCHANGED <<stage, functions, function_definitions, project, message,
                   request, last>>
\* SendMessage as if the transcript were pruned to the system message first.
SendMessage_Pruning ==
    /\ pc = "send"
    /\ Turns < MaxTurns
    /\ messages' = <<messages[1],
                     Message("User",
                             Some(IF stage = "analysis"
                                  THEN AnalysisInstruction ELSE message),
                             None, None)>>
    /\ pc' = "AwaitingModel"
    /\ UNCHANGED <<stage, functions, function_definitions, project, message,
                   request, last>>

\* Chat::send_message, up to the call of execute: the analysis instruction,
\* then main's `message`.
SendMessage ==
    /\ pc = "send"
    /\ Turns < MaxTurns
    /\ messages' = Append(messages,
                          Message("User",
                                  Some(IF stage = "analysis"
                                       THEN AnalysisInstruction ELSE message),
                                  None, None))
    /\ pc' = "AwaitingModel"
    /\ UNCHANGED <<stage, functions, function_definitions, project, message,
                   request, last>>

ModelCalls == {FunctionCall(n, t) : n \in ModelNames, t \in ModelTexts}

FinalReply == Message("Assistant", Some(<<PROSE("Done.")>>), None, None)

CallReply(c) == Message("Assistant", None, None, Some(c))
\* CallableFunctionList::function_definitions: a clone of the list.
FunctionDefinitions(defs) == defs

BuildRequest ==
    Some([messages |-> messages,
          functions |-> FunctionDefinitions(function_definitions)])

\* Chat::execute, lines 81-91: the request carries the transcript and the
\* definitions; the reply is appended.
ModelReplies(reply) ==
    /\ pc = "AwaitingModel"
    /\ IsSome(reply.function_call) => Calls < MaxCalls
    /\ request' = BuildRequest
    /\ messages' = Append(messages, reply)
    /\ pc' = "ModelReplied"
    /\ UNCHANGED <<stage, functions, function_definitions, project, message, last>>

\* Chat::execute, lines 86 and 88: the call failed, or the reply has no choice.
ModelFails ==
    /\ pc = "AwaitingModel"
    /\ request' = BuildRequest
    /\ pc' = "panic"
    /\ UNCHANGED <<stage, messages, functions, function_definitions, project,
                   message, last>>

LastMessage == messages[Len(messages)]
\* Dispatch as if a DispatchError were logged and the model asked again.
Dispatch_SkipsFailure ==
    /\ pc = "ModelReplied"
    /\ IsSome(LastMessage.function_call)
    /\ LET call == LastMessage.function_call[1]
       IN  \E o \in dispatch(functions, call, project) :
             /\ project' = o.projects
             /\ last' = Called(call, o)
             /\ pc' = "AwaitingModel"
             /\ IF IsSome(o.message)
                THEN messages' = Append(messages, o.message[1])
                ELSE UNCHANGED messages
    /\ UNCHANGED <<stage, functions, function_definitions, message, request>>
\* Dispatch as if a tool were taken off the registry once it had been called.
Dispatch_DropsTool ==
    /\ pc = "ModelReplied"
    /\ IsSome(LastMessage.function_call)
    /\ LET call == LastMessage.function_call[1]
           Without(entries, name) == SelectSeq(entries, LAMBDA e : e.name # name)
       IN  /\ \E o \in dispatch(functions, call, project) :
                /\ project' = o.projects
                /\ last' = Called(call, o)
                /\ IF IsSome(o.message)
                   THEN /\ pc' = "AwaitingModel"
                        /\ messages' = Append(messages, o.message[1])
                   ELSE /\ pc' = "panic"
                        /\ UNCHANGED messages
           /\ functions' = Without(functions, call.name)
           /\ function_definitions' = Without(function_definitions, call.name)
    /\ UNCHANGED <<stage, message, request>>
\* Dispatch as if the message it returned were not pushed to the transcript.
Dispatch_Unrecorded ==
    /\ pc = "ModelReplied"
    /\ IsSome(LastMessage.function_call)
    /\ LET call == LastMessage.function_call[1]
       IN  \E o \in dispatch(functions, call, project) :
             /\ project' = o.projects
             /\ last' = Called(call, o)
             /\ pc' = IF IsSome(o.message) THEN "AwaitingModel" ELSE "panic"
    /\ UNCHANGED <<stage, messages, functions, function_definitions, message,
                   request>>

\* Chat::execute, lines 93-96: the reply's call is dispatched; unwrap panics
\* on a DispatchError.
Dispatch ==
    /\ pc = "ModelReplied"
    /\ IsSome(LastMessage.function_call)
    /\ LET call == LastMessage.function_call[1]
       IN  \E o \in dispatch(functions, call, project) :
             /\ project' = o.projects
             /\ last' = Called(call, o)
             /\ IF IsSome(o.message)
                THEN /\ pc' = "AwaitingModel"
                     /\ messages' = Append(messages, o.message[1])
                ELSE /\ pc' = "panic"
                     /\ UNCHANGED messages
    /\ UNCHANGED <<stage, functions, function_definitions, message, request>>

\* Break as if the loop were left after every reply.
Break_Always ==
    /\ pc = "ModelReplied"
    /\ pc' = "Done"
    /\ UNCHANGED <<stage, messages, functions, function_definitions, project,
                   message, request, last>>

\* Chat::execute, lines 97-99: no call in the reply; send_message returns.
Break ==
    /\ pc = "ModelReplied"
    /\ ~IsSome(LastMessage.function_call)
    /\ pc' = "Done"
    /\ UNCHANGED <<stage, messages, functions, function_definitions, project,
                   message, request, last>>

\* main, line 177: after the analysis turn the work instruction is set.
MainAfterAnalysis ==
    /\ pc = "Done"
    /\ stage = "analysis"
    /\ message' = CreateInstruction
    /\ stage' = "work"
    /\ pc' = "send"
    /\ UNCHANGED <<messages, functions, function_definitions, project, request, last>>
\* MainInspect as if the flag were left set before the build check.
MainInspect_NoClear ==
    /\ pc = "Done"
    /\ stage = "work"
    /\ pc' = IF is_dirty(project["dst"]) THEN "cargo_check" ELSE "exit"
    /\ UNCHANGED <<stage, messages, functions, function_definitions, project,
                   message, request, last>>

\* main, lines 180-181 and 189: the flag is read, and cleared when set.
MainInspect ==
    /\ pc = "Done"
    /\ stage = "work"
    /\ IF is_dirty(project["dst"])
       THEN /\ project' = [project EXCEPT !["dst"] = clear_dirty(@)]
            /\ pc' = "cargo_check"
       ELSE /\ pc' = "exit"
            /\ UNCHANGED project
    /\ UNCHANGED <<stage, messages, functions, function_definitions, message,
                   request, last>>
\* MainCargoCheck as if the diagnostics were left out of the next instruction.
MainCargoCheck_PrefixOnly(stdout) ==
    /\ pc = "cargo_check"
    /\ LET errors == run_cargo_check(stdout)
       IN  IF IsSome(errors)
           THEN /\ message' = FixPrefix
                /\ pc' = "send"
           ELSE /\ pc' = "exit"
                /\ UNCHANGED message
    /\ last' = Checked(run_cargo_check(stdout))
    /\ UNCHANGED <<stage, messages, functions, function_definitions, project,
                   request>>

\* main, lines 183-187: the build check; diagnostics become the next instruction.
MainCargoCheck(stdout) ==
    /\ pc = "cargo_check"
    /\ LET errors == run_cargo_check(stdout)
       IN  IF IsSome(errors)
           THEN /\ message' = FixPrefix \o errors[1]
                /\ pc' = "send"
           ELSE /\ pc' = "exit"
                /\ UNCHANGED message
    /\ last' = Checked(run_cargo_check(stdout))
    /\ UNCHANGED <<stage, messages, functions, function_definitions, project,
                   request>>

\* Project::run_cargo_check, lines 83-84: the command cannot be run, or its
\* output is not UTF-8.
MainCargoCheckPanics ==
    /\ pc = "cargo_check"
    /\ pc' = "panic"
    /\ UNCHANGED <<stage, messages, functions, function_definitions, project,
                   message, request, last>>

Next ==
    \/ MainAddFunction
    \/ MainSystemMessage
    \/ SendMessage
    \/ \E c \in ModelCalls : ModelReplies(CallReply(c))
    \/ ModelReplies(FinalReply)
    \/ ModelFails
    \/ Dispatch
    \/ Break
    \/ MainAfterAnalysis
    \/ MainInspect
    \/ \E stdout \in CheckOutputs : MainCargoCheck(stdout)
    \/ MainCargoCheckPanics

Spec == Init /\ [][Next]_vars

\* main run with the same directory given as source and as destination: both
\* arguments pass the is_dir tests of lines 110-117.
InitShared == InitWith("startup", {SourceRoot})

SpecShared == InitShared /\ [][Next]_vars

\* The loop's own steps are taken (the program is sequential), and the model
\* does not withhold a reply without a call forever.
LiveSpec ==
    /\ Spec
    /\ WF_vars(ModelReplies(FinalReply))
    /\ WF_vars(Break)
    /\ []<>~(pc = "ModelReplied" /\ IsSome(LastMessage.function_call))

(* ------------------------- the registry harness ------------------------ *)
(* A client of function.rs and project.rs alone, as the unit test is: it   *)
(* registers closures under names it picks, then dispatches calls and      *)
(* clears the destination's flag.                                          *)

InitLib == InitWith("lib_setup", DestinationRoots)

LibAddFunction(name, c) ==
    /\ pc = "lib_setup"
    /\ LET r == add_function(List, name, "a tool", c)
       IN  /\ functions' = r.list.functions
           /\ function_definitions' = r.list.function_definitions
           /\ pc' = IF r.panic THEN "panic" ELSE "lib_setup"
           /\ last' = Added(name, c, r.panic)
    /\ UNCHANGED <<stage, messages, project, message, request>>

LibSetupDone ==
    /\ pc = "lib_setup"
    /\ pc' = "lib"
    /\ UNCHANGED <<stage, messages, functions, function_definitions, project,
                   message, request, last>>

LibDispatch(call) ==
    /\ pc = "lib"
    /\ \E o \in dispatch(functions, call, project) :
         /\ project' = o.projects
         /\ pc' = IF o.panic THEN "panic" ELSE "lib"
         /\ last' = Called(call, o)
    /\ UNCHANGED <<stage, messages, functions, function_definitions, message,
                   request>>

LibClearDirty ==
    /\ pc = "lib"
    /\ project' = [project EXCEPT !["dst"] = clear_dirty(@)]
    /\ last' = Cleared
    /\ UNCHANGED <<pc, stage, messages, functions, function_definitions, message,
                   request>>

NextLib ==
    \/ \E name \in LibNames, c \in LibClosures : LibAddFunction(name, c)
    \/ LibSetupDone
    \/ \E name \in LibNames, t \in LibTexts : LibDispatch(FunctionCall(name, t))
    \/ LibClearDirty

SpecLib == InitLib /\ [][NextLib]_vars

(* ------------------------------- claims -------------------------------- *)

\* The closure registered under a name, when there is one.
Registered(name) == IsSome(Find(functions, name))

ClosureOf(name) == Find(functions, name)[1].func

\* This step is a dispatch made by the harness.
LibDispatched == pc = "lib" /\ last'.op = "dispatch"

\* C1.  A dispatch of an unregistered name yields FunctionNotFound, invokes no
\* host function and does not crash the process, also when the call comes
\* from a model reply inside Chat::execute.
C1_UnknownToolIsNotFatal ==
    (last.op = "dispatch" /\ last.err = "FunctionNotFound")
        => (last.invoked = <<>> /\ pc # "panic")

\* Texts that do not decode to the argument type, told apart by hand: no
\* object or array, a missing or null field, too few items.
Undecodable(argType) ==
    CASE argType = "ReadFileArgs" ->
            {EmptyObjectText, EmptyText, JunkText, NullPathText}
      [] argType = "WriteFileArgs" ->
            {EmptyObjectText, EmptyText, JunkText, NullPathText, ArrayArgsText,
             ReadArgsText(PathA)}
      [] OTHER -> {}

\* C2.  For a registered tool with a non-unit argument type and an argument
\* text that does not decode to it, dispatch returns the Deserialize error and
\* the host function is not invoked: no project's files or mutation flag change.
C2_UndecodableArgumentsInvokeNothing ==
    [][(/\ LibDispatched
        /\ Registered(last'.name)
        /\ ClosureOf(last'.name).argType # "unit"
        /\ \/ last'.arguments \in Undecodable(ClosureOf(last'.name).argType)
           \/ ~FromStr(ClosureOf(last'.name).argType, last'.arguments).ok)
       => /\ last'.err = "Deserialize"
          /\ ~last'.panic
          /\ last'.message = None
          /\ last'.invoked = <<>>
          /\ project' = project]_vars

C2_Witness ==
    /\ last.op = "dispatch"
    /\ last.err = "Deserialize"
    /\ last.arguments = ReadArgsText(PathA)
    /\ Registered(last.name)
    /\ ClosureOf(last.name).host = "write_file"

\* C3.  For a tool registered with the unit type, dispatch succeeds whatever
\* the payload is (it is not decoded), the host function is invoked exactly
\* once, and what the call returns and leaves is a result of the same call
\* with any other payload.
C3_UnitToolIgnoresPayload ==
    [][(/\ LibDispatched
        /\ Registered(last'.name)
        /\ ClosureOf(last'.name).argType = "unit")
       => /\ last'.err = ""
          /\ ~last'.panic
          /\ IsSome(last'.message)
          /\ Len(last'.invoked) = 1
          /\ \A t \in LibTexts :
                \E o \in dispatch(functions, FunctionCall(last'.name, t), project) :
                    /\ o.message = last'.message
                    /\ o.invoked = last'.invoked
                    /\ o.projects = project']_vars

C3_Witness ==
    /\ last.op = "dispatch"
    /\ last.arguments = JunkText
    /\ Registered(last.name)
    /\ ClosureOf(last.name).argType = "unit"
    /\ IsSome(last.message)
    /\ Len(last.invoked) = 1

NamesDistinct(entries) ==
    \A i, j \in 1..Len(entries) : entries[i].name = entries[j].name => i = j

\* C4.  Registering a tool under a name that is already registered aborts,
\* whatever the argument and result types of the two tools, and adds no
\* entry; the names in the registry are pairwise distinct in every state.
C4_DuplicateNameRejected ==
    /\ [](NamesDistinct(functions) /\ NamesDistinct(function_definitions))
    /\ [][(/\ pc = "lib_setup"
           /\ pc' # "lib"
           /\ \/ NameTaken(function_definitions, last'.name)
              \/ Registered(last'.name))
          => /\ pc' = "panic"
             /\ last'.panic
             /\ functions' = functions
             /\ function_definitions' = function_definitions]_vars

\* A closure of another argument and result type was refused the name.
C4_Witness ==
    /\ pc = "panic"
    /\ last.op = "add_function"
    /\ last.panic
    /\ Registered(last.name)
    /\ ClosureOf(last.name).argType # last.func[1].argType
    /\ ClosureOf(last.name).host # last.func[1].host
    /\ Len(functions) = 1

HelloText == <<LBRACE, STR(<<"message">>), COLON, STR(<<"Hello">>), RBRACE>>

NoErrorText == <<LBRACE, STR(<<"error">>), COLON, NULL, RBRACE>>

\* C5.  A successful dispatch returns a message with role Function, the name
\* of the request, and as content exactly the text encoding of the value the
\* host function returned for the decoded argument: {"message":"Hello"} for
\* the unit test's tool, {"error":null} for a write that succeeded.
C5_SuccessfulDispatchEncodesResult ==
    [][(LibDispatched /\ IsSome(last'.message))
       => LET c == ClosureOf(last'.name)
              args == FromStr(c.argType, ArgsStr(c, last'.arguments))
              call == last'.invoked[1]
              m == last'.message[1]
          IN  /\ Registered(last'.name)
              /\ args.ok
              /\ Len(last'.invoked) = 1
              /\ call.value = args.value
              /\ \E a \in Apply(c, args.value, project) :
                    ~a.panic /\ a.ret = call.ret /\ a.projects = project'
              /\ m.role = "Function"
              /\ m.name = Some(last'.name)
              /\ m.function_call = None
              /\ m.content = Some(to_string(call.ret))
              /\ call.ret.type = "FuncResult" => m.content = Some(HelloText)
              /\ (call.ret.type = "WriteFileResult" /\ call.ret.error = None)
                    => m.content = Some(NoErrorText)]_vars

\* The unit test: "unit_test" dispatched with {} returns {"message":"Hello"}.
C5_Witness ==
    /\ last.op = "dispatch"
    /\ last.name = "unit_test"
    /\ last.arguments = EmptyObjectText
    /\ IsSome(last.message)
    /\ last.message[1].content = Some(HelloText)
    /\ last.message[1].name = Some("unit_test")

HasCall(m) == IsSome(m.function_call)

\* C6.  send_message returns exactly when a model reply carries no call: a
\* reply with a call is dispatched and, the dispatch having returned its
\* message, the model is queried again with the transcript; after a reply
\* without a call nothing more is requested or dispatched.  With the model
\* bound to stop calling, send_message returns unless the run failed.
C6_LoopEndsOnReplyWithoutCall ==
    /\ [][/\ (pc' = "Done" /\ pc # "Done")
                => (pc = "ModelReplied" /\ ~HasCall(LastMessage))
          /\ (pc = "ModelReplied" /\ HasCall(LastMessage))
                => \/ /\ pc' = "AwaitingModel"
                      /\ last'.op = "dispatch"
                      /\ last'.name = LastMessage.function_call[1].name
                      /\ last'.arguments = LastMessage.function_call[1].arguments
                      /\ IsSome(last'.message)
                      /\ messages' = Append(messages, last'.message[1])
                      /\ request' = request
                   \/ /\ pc' = "panic"
                      /\ last'.op = "dispatch"
                      /\ ~IsSome(last'.message)
          /\ (pc = "ModelReplied" /\ ~HasCall(LastMessage))
                => /\ pc' = "Done"
                   /\ UNCHANGED <<messages, request, project, last>>
          /\ pc = "AwaitingModel"
                => /\ pc' \in {"ModelReplied", "panic"}
                   /\ request' = Some([messages |-> messages,
                                       functions |-> function_definitions])
                   /\ UNCHANGED <<project, last>>]_vars
    /\ (pc \in {"AwaitingModel", "ModelReplied"}) ~> (pc \in {"Done", "panic"})

\* A send_message that returned after two dispatches.
C6_Witness ==
    /\ pc = "Done"
    /\ Len(messages) >= 6
    /\ messages[Len(messages) - 1].role = "Function"
    /\ messages[Len(messages) - 3].role = "Function"

\* C7.  Every message with role Function is immediately preceded by an
\* assistant message that carries a call of the same name.
C7_ToolMessageFollowsItsRequest ==
    \A i \in 1..Len(messages) :
        messages[i].role = "Function"
            => /\ i > 1
               /\ messages[i - 1].role = "Assistant"
               /\ HasCall(messages[i - 1])
               /\ messages[i].name = Some(messages[i - 1].function_call[1].name)

C7_Witness ==
    /\ Len(messages) >= 2
    /\ LastMessage.role = "Function"
    /\ LastMessage.name = Some("src_read_file")
    /\ Calls = 2

Users == {i \in 1..Len(messages) : messages[i].role = "User"}

\* A write to the destination succeeded between messages i and j.
WroteBetween(i, j) ==
    \E k \in (i + 1)..(j - 1) :
        /\ messages[k].role = "Function"
        /\ messages[k].name = Some("dst_write_file")
        /\ messages[k].content = Some(NoErrorText)

\* C8.  Once a work-instruction turn produces no write to the destination, no
\* further instruction is issued, whatever earlier turns wrote: every
\* instruction that follows a work instruction follows a write of its turn.
C8_StopsAfterTurnWithoutWrite ==
    \A i, j \in Users :
        (/\ i < j
         /\ \A k \in Users : ~(i < k /\ k < j)
         /\ \E k \in Users : k < i)
            => WroteBetween(i, j)

\* C9.  write_file marks the root mutated on success only: after a write that
\* returns no error the flag is true, and a write that returns an error leaves
\* the flag as it was.
C9_FlagSetOnSuccessOnly ==
    [][(/\ LibDispatched
        /\ ~last'.panic
        /\ Len(last'.invoked) = 1
        /\ last'.invoked[1].host = "write_file")
       => IF last'.invoked[1].ret.error = None
          THEN project'["dst"].dirty
          ELSE project'["dst"].dirty = project["dst"].dirty]_vars

\* C10.  The flag reads false after Project::new and after clear_dirty, true
\* after a write_file that succeeded, and once true it stays true through
\* every list, read and write until the next clear_dirty.
C10_FlagHeldUntilCleared ==
    /\ [](last.op \in {"none", "add_function"}
            => \A id \in DOMAIN project : ~is_dirty(project[id]))
    /\ [][/\ (pc = "lib" /\ last'.op = "clear_dirty")
                => ~is_dirty(project'["dst"])
          /\ (/\ LibDispatched
              /\ ~last'.panic
              /\ Len(last'.invoked) = 1
              /\ last'.invoked[1].host = "write_file"
              /\ last'.invoked[1].ret.error = None)
                => is_dirty(project'["dst"])
          /\ \A id \in DOMAIN project :
                (is_dirty(project[id]) /\ last'.op # "clear_dirty")
                    => is_dirty(project'[id])]_vars

\* The flag is still set after a write that failed.
C10_Witness ==
    /\ last.op = "dispatch"
    /\ Len(last.invoked) = 1
    /\ last.invoked[1].host = "write_file"
    /\ last.invoked[1].ret.error = Some(InvalidPath)
    /\ is_dirty(project["dst"])

\* The value the registered closure decodes from the payload of this dispatch.
Decoded(name, arguments) ==
    FromStr(ClosureOf(name).argType, ArgsStr(ClosureOf(name), arguments))

\* C11.  For a registered tool and a payload that decodes, the dispatch never
\* panics and never fails: whatever the filesystem does, it returns a tool
\* message, and a read or write that did not succeed shows in the message as
\* a non-null error field.
C11_FilesystemFailuresAreValues ==
    [][(/\ LibDispatched
        /\ Registered(last'.name)
        /\ Decoded(last'.name, last'.arguments).ok)
       => /\ ~last'.panic
          /\ last'.err = ""
          /\ IsSome(last'.message)
          /\ Len(last'.invoked) = 1
          /\ last'.message[1].content = Some(to_string(last'.invoked[1].ret))]_vars

\* The paths the rule names: absolute, starting with a dot, or holding a
\* ".." segment.
Forbidden(path) ==
    \/ (path # <<>> /\ path[1] = "/")
    \/ (path # <<>> /\ path[1] = ".")
    \/ \E i \in 1..Len(SplitAcc(path, <<>>, <<>>)) :
          SplitAcc(path, <<>>, <<>>)[i] = <<".", ".">>

\* C12.  A read_file or write_file whose path is absolute, starts with a dot
\* or holds a ".." segment returns "Invalid path." (a read returns no
\* contents), as it would on an empty directory, and leaves every project's
\* files and mutation flag as they were.
C12_ForbiddenPathsTouchNothing ==
    [][(/\ LibDispatched
        /\ Len(last'.invoked) = 1
        /\ last'.invoked[1].host \in {"read_file", "write_file"}
        /\ Forbidden(last'.invoked[1].value[1]))
       => LET call == last'.invoked[1]
              empty == NewProject(project[call.proj].path, EmptyTree)
          IN  /\ ~last'.panic
              /\ call.ret.error = Some(InvalidPath)
              /\ call.host = "read_file"
                    => /\ call.ret.contents = None
                       /\ call.ret = read_file(empty, call.value[1])
              /\ call.host = "write_file"
                    => call.ret = write_file(empty, call.value[1], call.value[2]).ret
              /\ project' = project]_vars

\* A write with a ".." segment was refused in a directory that holds a file
\* and whose flag is set.
C12_Witness ==
    /\ last.op = "dispatch"
    /\ Len(last.invoked) = 1
    /\ last.invoked[1].host = "write_file"
    /\ last.invoked[1].value[1] = PathUp
    /\ last.invoked[1].ret.error = Some(InvalidPath)
    /\ IsFile(project["dst"].tree, <<PathA>>)
    /\ is_dirty(project["dst"])

\* C13.  function_definitions() returns one {name, description, parameters}
\* triple per registered tool, in registration order: the two lists have the
\* same length and the same name at every index, and a registration that
\* succeeds appends its closure and its triple at the end of each, so a name
\* is dispatchable exactly when it is advertised.
C13_DefinitionsFollowRegistrations ==
    /\ [](LET defs == FunctionDefinitions(function_definitions)
          IN  /\ Len(defs) = Len(functions)
              /\ \A i \in 1..Len(defs) :
                    /\ defs[i].name = functions[i].name
                    /\ IsSome(defs[i].description)
                    /\ defs[i].parameters =
                          Some(ArgumentSchema(functions[i].func.argType))
              /\ \A n \in LibNames : Registered(n) <=> NameTaken(defs, n))
    /\ [][(pc = "lib_setup" /\ pc' = "lib_setup")
          => /\ functions' =
                   Append(functions,
                          [name |-> last'.name, func |-> last'.func[1]])
             /\ FunctionDefinitions(function_definitions') =
                   Append(FunctionDefinitions(function_definitions),
                          [name |-> last'.name,
                           description |-> Some("a tool"),
                           parameters |->
                               Some(ArgumentSchema(last'.func[1].argType))])]_vars

\* Two tools of different argument types were registered.
C13_Witness ==
    /\ pc = "lib"
    /\ Len(function_definitions) = 2
    /\ function_definitions[1].name = "dst_write_file"
    /\ function_definitions[1].parameters = Some(ArgumentSchema("WriteFileArgs"))
    /\ function_definitions[2].name = "unit_test"
    /\ function_definitions[2].parameters = Some(NullSchema)

\* C14.  The build check runs only from the end of a work-instruction turn
\* whose flag read true, never from the end of the analysis turn; the flag
\* was cleared before and reads false while the check runs; and the check
\* runs at most once per turn: from the check the run goes on only to the
\* next send_message, to the exit or to a failure.
C14_BuildCheckFollowsDirtyWorkTurn ==
    /\ [](pc = "cargo_check"
            => /\ stage = "work"
               /\ Turns >= 2
               /\ ~is_dirty(project["dst"])
               /\ LastMessage.role = "Assistant"
               /\ ~HasCall(LastMessage))
    /\ [][/\ (pc' = "cargo_check" /\ pc # "cargo_check")
                => /\ pc = "Done"
                   /\ stage = "work"
                   /\ is_dirty(project["dst"])
                   /\ project' = [project EXCEPT !["dst"].dirty = FALSE]
                   /\ messages' = messages
          /\ (pc = "Done" /\ stage = "work" /\ ~is_dirty(project["dst"]))
                => pc' = "exit"
          /\ (pc = "Done" /\ stage = "analysis")
                => (pc' = "send" /\ stage' = "work" /\ project' = project)
          /\ pc = "cargo_check"
                => /\ pc' \in {"send", "exit", "panic"}
                   /\ UNCHANGED <<messages, project, stage>>
          /\ pc = "send" => (pc' = "AwaitingModel" /\ Turns' = Turns + 1)
          /\ (pc' = "Done" /\ pc # "Done") => pc = "ModelReplied"]_vars

\* The build check runs a second time, after the first fix turn.
C14_Witness ==
    /\ pc = "cargo_check"
    /\ Turns = 3
    /\ ~is_dirty(project["dst"])

\* The user messages before message i, itself included.
UserOrdinal(i) == Cardinality({k \in Users : k <= i})

UserMessage(text) == Message("User", Some(text), None, None)

\* C15.  A build check that returns no diagnostics ends the session: no user
\* message follows.  One that returns the text E makes the next user message
\* the fix instruction followed by E, unchanged.  The first user message is
\* the analysis instruction, the second the create instruction, and every
\* later one a fix instruction.
C15_NextInstructionFollowsBuildCheck ==
    /\ [](\A i \in Users :
            CASE UserOrdinal(i) = 1 -> messages[i] = UserMessage(AnalysisInstruction)
              [] UserOrdinal(i) = 2 -> messages[i] = UserMessage(CreateInstruction)
              [] OTHER -> \E E \in CheckOutputs \ {<<>>} :
                              messages[i] = UserMessage(FixPrefix \o E))
    /\ [][/\ (pc = "cargo_check" /\ pc' # "panic")
                => /\ last'.op = "run_cargo_check"
                   /\ last'.errors \in {None} \cup {Some(E) : E \in CheckOutputs \ {<<>>}}
                   /\ messages' = messages
                   /\ IF last'.errors = None
                      THEN pc' = "exit"
                      ELSE /\ pc' = "send"
                           /\ message' = FixPrefix \o last'.errors[1]
          /\ (pc = "send" /\ last.op = "run_cargo_check")
                => /\ IsSome(last.errors)
                   /\ messages' =
                         Append(messages,
                                UserMessage(FixPrefix \o last.errors[1]))
          /\ pc = "exit" => FALSE]_vars

\* The fix instruction for the second kind of output was sent.
C15_Witness ==
    /\ pc = "AwaitingModel"
    /\ LastMessage = UserMessage(FixPrefix \o Warnings)
    /\ last.op = "run_cargo_check"
    /\ last.errors = Some(Warnings)

\* C16.  A model call that fails, or a dispatch that returns a DispatchError,
\* ends the run where it stands: the failing step appends no message, invokes
\* no host function and changes no project, and nothing happens after it (no
\* request, dispatch, message, build check or retry).
C16_FailureHaltsRun ==
    [][/\ (pc = "AwaitingModel" /\ pc' = "panic")
            => UNCHANGED <<messages, project, last, stage, message>>
       /\ (pc = "ModelReplied" /\ HasCall(LastMessage) /\ last'.err # "")
            => /\ pc' = "panic"
               /\ last'.err \in {"FunctionNotFound", "Deserialize", "Serialize"}
               /\ last'.invoked = <<>>
               /\ UNCHANGED <<messages, project, request>>
       /\ pc = "panic" => FALSE]_vars

\* The run ended on arguments that did not decode, after an earlier dispatch.
C16_Witness ==
    /\ pc = "panic"
    /\ last.op = "dispatch"
    /\ last.err = "Deserialize"
    /\ Calls = 2
    /\ LastMessage.role = "Assistant"

IsPrefix(s, t) == Len(s) <= Len(t) /\ SubSeq(t, 1, Len(s)) = s

\* C17.  Every step leaves the transcript a prefix of what it becomes; every
\* model request carries the transcript as it stands when the request is
\* made; and the messages of a request properly extend those of the request
\* before it.
C17_TranscriptAppendOnly ==
    [][/\ IsPrefix(messages, messages')
       /\ pc = "AwaitingModel"
            => /\ IsSome(request')
               /\ request'[1].messages = messages
       /\ request' # request
            => /\ pc = "AwaitingModel"
               /\ IsSome(request)
                    => /\ IsPrefix(request[1].messages, request'[1].messages)
                       /\ Len(request[1].messages) < Len(request'[1].messages)]_vars

\* A request of the second turn carries the first turn, tool result included.
C17_Witness ==
    /\ pc = "ModelReplied"
    /\ IsSome(request)
    /\ Len(request[1].messages) = 6
    /\ request[1].messages[4].role = "Function"
    /\ request[1].messages[6].role = "User"

\* C18.  Once the conversation has started the registry does not change: no
\* step adds, removes or alters an entry of either list, every request
\* advertises the definitions of the five tools main registered, in order,
\* and so the same list as the request before it.
C18_RegistryFixedAfterStartup ==
    /\ [](pc # "startup"
            => /\ [i \in 1..Len(functions) |-> functions[i]]
                    = [i \in 1..Len(MainTools) |->
                          [name |-> MainTools[i].name, func |-> MainTools[i].func]]
               /\ [i \in 1..Len(function_definitions) |-> function_definitions[i].name]
                    = [i \in 1..Len(MainTools) |-> MainTools[i].name])
    /\ [](IsSome(request) => request[1].functions = function_definitions)
    /\ [][/\ pc # "startup" => UNCHANGED <<functions, function_definitions>>
          /\ (IsSome(request) /\ IsSome(request'))
                => request'[1].functions = request[1].functions]_vars

\* A request made after a tool call that returned an error value.
C18_Witness ==
    /\ IsSome(request)
    /\ Len(request[1].functions) = 5
    /\ Len(request[1].messages) >= 4
    /\ request[1].messages[4].role = "Function"
    /\ request[1].messages[4].name = Some("dst_write_file")
    /\ request[1].messages[4].content # Some(NoErrorText)

\* C19.  Whatever tools the model calls, the source project is as main found
\* it: its files are unchanged and its mutation flag reads false.
C19_SourceProjectUntouched ==
    /\ project["src"].tree = SourceTree
    /\ ~is_dirty(project["src"])

\* send_message has returned and the run has not failed since.
SendReturned == pc \in {"Done", "cargo_check", "exit"} \/ (pc = "send" /\ Turns >= 1)

\* C20.  When send_message has returned, the transcript ends with an
\* assistant message without a call, and after the system message it is made
\* of segments of one shape: a user message, then pairs of an assistant
\* message with a call and the tool message of that call, then an assistant
\* message without a call.
C20_TranscriptShapeOnReturn ==
    SendReturned
        => /\ Len(messages) >= 3
           /\ messages[1].role = "System"
           /\ LastMessage.role = "Assistant"
           /\ ~HasCall(LastMessage)
           /\ \A i \in 2..Len(messages) :
                LET m == messages[i]
                    prev == messages[i - 1]
                    last_one == i = Len(messages)
                IN  CASE m.role = "User" ->
                            /\ i = 2 \/ (prev.role = "Assistant" /\ ~HasCall(prev))
                            /\ ~last_one
                            /\ messages[i + 1].role = "Assistant"
                      [] m.role = "Assistant" /\ HasCall(m) ->
                            /\ prev.role \in {"User", "Function"}
                            /\ ~last_one
                            /\ messages[i + 1].role = "Function"
                            /\ messages[i + 1].name = Some(m.function_call[1].name)
                      [] m.role = "Assistant" /\ ~HasCall(m) ->
                            /\ prev.role \in {"User", "Function"}
                            /\ last_one \/ messages[i + 1].role = "User"
                      [] m.role = "Function" ->
                            /\ prev.role = "Assistant"
                            /\ HasCall(prev)
                            /\ ~last_one
                            /\ messages[i + 1].role = "Assistant"
                      [] OTHER -> FALSE

\* The second send_message returned; each turn holds one call and its result.
C20_Witness ==
    /\ pc = "Done"
    /\ stage = "work"
    /\ Len(messages) = 9
    /\ messages[4].role = "Function"
    /\ messages[8].role = "Function"

====
